---- MODULE Spec2Model ----
(***************************************************************************)
(* TOTP second factor of navidrome: the Secret & Code Verifier             *)
(* (core/auth/totp.go), the enrollment handlers setupTOTP / enableTOTP /   *)
(* disableTOTP (server/nativeapi) over the user store, and the             *)
(* pending-authentication login flow (login step 1 / step 2).              *)
(***************************************************************************)
EXTENDS Integers, Sequences, FiniteSets, TLC

\* ------------------------------------------------------------------ bounds
MaxTicks == 2         \* single clock steps (30 s) taken in one behaviour
MaxLapses == 1        \* whole token lifetimes (5 min) that elapse at once
MaxReqs == 2          \* enrollment requests in flight at once
MaxVerifiers == 2     \* login step-2 requests in flight at once
MaxTokens == 1        \* pending tokens issued in one behaviour
MaxCalls == 2         \* repeated ValidateCode calls with one secret and code
MaxBackups == 5       \* runBackup calls in one behaviour
MaxSeconds == 4       \* seconds that pass between the backup commands
MaxSessions == 2      \* times the setup dialog is opened
StartTime == 60       \* wall-clock reading (s) when the server starts

\* ------------------------------------------------- program constants
Period == 30          \* TOTP time step in seconds
Skew == 1             \* accepted adjacent steps on either side
Digits == 6           \* length of a code
CodeModulus == 1000000 \* 10^Digits
TokenTTL == 300       \* pending token lifetime in seconds (5 minutes)

StatusOK == 200
StatusBadRequest == 400
StatusUnauthorized == 401
StatusForbidden == 403
StatusNotFound == 404
StatusInternalServerError == 500

\* ------------------------------------------------------------- state
VARIABLES
    now,        \* wall clock, seconds
    store,      \* user store: id -> [TOTPSecret, TOTPEnabled]
    req,        \* enrollment request slots: handler position and response
    lastOK,     \* history: per account, the last request whose Put succeeded
    tokens,     \* pending-authentication tokens, by token id
    sessions,   \* full sessions issued
    loginResp,  \* the last response of login step 1
    vcall,      \* login step-2 requests in flight: position and local data
    verifyResp, \* the last response of login step 2
    retried,    \* history: tokens that an invalid code was presented for
    minted,     \* history: per account, the secrets setup has handed out
    svc,        \* the last direct call of a TOTPService method
    db,         \* the user table: its columns and rows, and the migration
    bk,         \* the backup directory and the last backup command run
    dlg,        \* TOTPSetupDialog: its state, its requests, what it showed
    ask         \* history: what the last enrollment request asked for

vars == <<now, store, req, lastOK, tokens, sessions, loginResp, vcall,
          verifyResp, retried, minted, svc, db, bk, dlg, ask>>
extVars == <<db, bk, dlg, ask>>
obsVars == <<minted, svc, extVars>>

\* ------------------------------------------------------------ the users
Users == {"admin", "alice"}          \* accounts present in the user store
TargetIDs == Users \cup {"ghost"}    \* {id} URL parameter; "ghost" has no account
NoUser == "-"                        \* request.UserFrom(ctx) found no user
Callers == Users \cup {NoUser}
IsAdmin(u) == u = "admin"
Password(u) == IF u = "admin" THEN "admin123" ELSE "wonderland"
Passwords == {"admin123", "wonderland"}

\* ------------------------------------------------------------- secrets
EmptySecret == ""
SecretA == "JBSWY3DPEHPK3PXP"
SecretB == "GEZDGNBVGY3TQOJQ"
BadSecret == "not base32!"
MintPool == {SecretA, SecretB}       \* values the random source can produce
SecretInputs == {EmptySecret, SecretA, SecretB, BadSecret}

\* base32.StdEncoding.DecodeString of the padded, upper-cased secret: the
\* key as a number, or -1 when the string is not base32.  The empty string
\* decodes without error to the empty key.
Base32Key(secret) ==
    CASE secret = EmptySecret -> 0
      [] secret = SecretA -> 1
      [] secret = SecretB -> 2
      [] OTHER -> 0 - 1

\* hotp.GenerateCodeCustom: HMAC of the counter under the key, truncated to
\* Digits decimal digits (the HMAC is abstracted by a fixed mixing function).
HOTP(key, counter) ==
    ((key + 3) * 7919 + counter * 104729 + key * counter * 613) % CodeModulus

\* A code is the string the client sends: its length and, read as a decimal
\* number, its value.
CodeOf(n) == [len |-> Digits, val |-> n]
ZeroCode == CodeOf(0)                       \* "000000"
ShortCode == [len |-> 5, val |-> 12345]     \* "12345"

\* totp.GenerateCode(secret, t): what an authenticator app shows at time t.
GenerateCode(secret, t) == CodeOf(HOTP(Base32Key(secret), t \div Period))

\* A validation that only looks at the length of the code.
TotpValidate_LengthOnly(code, secret, t) == code.len = Digits

\* A validation that tries the counter of the current step only.
TotpValidate_CurrentStepOnly(code, secret, t) ==
    /\ code.len = Digits
    /\ Base32Key(secret) >= 0
    /\ HOTP(Base32Key(secret), t \div Period) = code.val

\* totp.Validate(code, secret) at wall-clock time t: the counters of the
\* current step and of Skew steps on either side are tried in turn.
TotpValidate(code, secret, t) ==
    LET c == t \div Period
        counters == {c + i : i \in (0 - Skew)..Skew}
    IN  /\ code.len = Digits
        /\ Base32Key(secret) >= 0
        /\ \E cnt \in counters : HOTP(Base32Key(secret), cnt) = code.val

\* A ValidateCode that accepts a secret and code once and refuses them when
\* they are presented again at once.
ValidateCode_OneTimeUse(secret, code, t) ==
    /\ TotpValidate(code, secret, t)
    /\ ~(svc.op = "ValidateCode" /\ svc.ok /\ svc.secret = secret
                                 /\ svc.code = code)

\* A ValidateCode that reports an error-free validation as a valid code.
ValidateCode_NoDecodeError(secret, code, t) ==
    code.len = Digits /\ Base32Key(secret) >= 0

\* totpService.ValidateCode
ValidateCode(secret, code, t) == TotpValidate(code, secret, t)

\* The codes totp.Validate accepts for a secret at time t, as the
\* authenticator of a client whose clock is at most Skew steps off shows them.
CodeWindow(secret, t) ==
    IF Base32Key(secret) < 0 THEN {}
    ELSE {GenerateCode(secret, t + i * Period) : i \in (0 - Skew)..Skew}

\* ------------------------------------------------------------- inputs
ClockSkews == {0 - 60, 0, 30}               \* the client's clock error (s)
AppSecrets == {EmptySecret, SecretA, SecretB}
CodeInputs(t) ==
    {GenerateCode(s, t + d) : s \in AppSecrets, d \in ClockSkews}
        \cup {ZeroCode, ShortCode}
\* Request bodies of enableTOTP: one that json.Decode rejects, and the
\* decoded {secret, code} pairs.
BadBody == [decodes |-> FALSE, secret |-> "", code |-> ZeroCode]
\* The codes sent with a secret: what the authenticator holding it shows on a
\* clock that may be off, the code of another secret, "000000" and "12345".
EnableCodes(s, t) ==
    IF s = BadSecret THEN {GenerateCode(SecretA, t)}
    ELSE {GenerateCode(s, t + d) : d \in ClockSkews}
            \cup {GenerateCode(IF s = SecretA THEN SecretB ELSE SecretA, t),
                  ZeroCode}
            \cup (IF s = SecretA THEN {ShortCode} ELSE {})
Bodies(t) ==
    {BadBody} \cup UNION {{[decodes |-> TRUE, secret |-> s, code |-> c] :
                              c \in EnableCodes(s, t)} : s \in SecretInputs}

loginVars == <<tokens, sessions, loginResp, vcall, verifyResp, retried>>
enrollVars == <<store, req, lastOK>>

Reqs == 1..MaxReqs
Verifiers == 1..MaxVerifiers
TokenIDs == 1..MaxTokens

\* Of a model.User the store record keeps the two TOTP fields and Email,
\* which stands for the attributes the TOTP handlers do not set.
NoAccount == [TOTPSecret |-> EmptySecret, TOTPEnabled |-> FALSE, Email |-> ""]
Enrolled(secret) == [NoAccount EXCEPT !.TOTPSecret = secret, !.TOTPEnabled = TRUE]
IdleReq == [op |-> "none", pc |-> "done", userID |-> NoUser,
            secret |-> EmptySecret, user |-> NoAccount,
            status |-> 0, body |-> "", writes |-> 0, codeMiss |-> FALSE,
            qrCode |-> <<>>, authz |-> "none", reads |-> 0, vcalls |-> 0,
            logged |-> {}, responses |-> 0, puts |-> 0]

\* ------------------------------------------- enrollment handlers
\* The router hands a new request to the first slot with no request in
\* flight.
Accepting(r) ==
    /\ req[r].pc = "done"
    /\ \A q \in 1..(r - 1) : req[q].pc # "done"

\* Slot r now holds rec, the position request r has run to or the response
\* it sent; of the requests that are finished, only the last response sent
\* is kept.
Accept(r, rec) ==
    [q \in Reqs |-> IF q = r THEN rec
                    ELSE IF req[q].pc = "done" THEN IdleReq ELSE req[q]]

\* rest.RespondWithError / rest.RespondWithJSON: the request is finished.
\* secret is the secret carried by the response body, if any.
Respond(op, status, body, secret, writes) ==
    [IdleReq EXCEPT !.op = op, !.secret = secret, !.status = status,
                    !.body = body, !.writes = writes, !.responses = 1]

\* The handler holds the user it read and is about to call Put.
HoldUser(op, userID, secret, user) ==
    [IdleReq EXCEPT !.op = op, !.pc = "put", !.userID = userID,
                    !.secret = secret, !.user = user]

\* ds.User(ctx).Get(userID) finds the user
UserExists(userID) == userID \in Users

\* A rule that lets every authenticated caller through.
Authorized_Anyone(caller, userID) == TRUE

\* The owner-or-admin rule of the three handlers.
Authorized(caller, userID) == IsAdmin(caller) \/ caller = userID

\* An error value is the sequence of the words of its message; <<>> is nil.
\* A log record is the message, the key/value fields and the error logged.
NoError == <<>>
GenerateError == <<"rand: read failed">>
NoAccountName == <<"AccountName must be set">>
ImageError == <<"png: write failed">>
StoreError == <<"database is locked">>
NotFoundError == <<"data not found">>
DecodeError == <<"unexpected EOF">>

\* A provisioning URL that names the issuer and leaves the account label out.
ProvisioningURL_NoLabel(userName, secret) ==
    <<"otpauth", "totp", "Navidrome", "", secret>>

\* A provisioning URL: otpauth://totp/Navidrome:<account>?secret=<secret>
ProvisioningURL(userName, secret) ==
    <<"otpauth", "totp", "Navidrome", userName, secret>>

\* totpService.GenerateSecret: the results totp.Generate can give for the
\* user; it fails for an empty account name or when the random source fails.
GenerateSecret(userName) ==
    IF userName = ""
    THEN {[secret |-> "", url |-> <<>>, err |-> NoAccountName,
           logged |-> {<<"Failed to generate TOTP secret", "user", userName>>
                          \o NoAccountName}]}
    ELSE {[secret |-> s, url |-> ProvisioningURL(userName, s), err |-> NoError,
           logged |-> {}] : s \in MintPool}
         \cup {[secret |-> "", url |-> <<>>, err |-> GenerateError,
                logged |-> {<<"Failed to generate TOTP secret", "user", userName>>
                               \o GenerateError}]}

\* url.Parse, as otp.NewKeyFromURL calls it on the trimmed string: it fails
\* on an invalid percent escape and accepts every other string, whether it
\* is a provisioning URL or not.  The error quotes the string it was given.
BadEscape == "%zz"
UrlParses(url) == \A i \in DOMAIN url : url[i] # BadEscape
ParseError(url) == <<"parse">> \o url \o <<"invalid URL escape">>

\* totpService.GenerateQRCode: NewKeyFromURL, then key.Image and png.Encode
\* (either of which can fail), then the base64 data URI of the image, which
\* encodes the string it was given.
GenerateQRCode(url) ==
    IF ~UrlParses(url)
    THEN {[qrCode |-> <<>>, err |-> ParseError(url),
           logged |-> {<<"Failed to create key from URL">> \o ParseError(url)}]}
    ELSE {[qrCode |-> <<"data:image/png;base64,">> \o url, err |-> NoError,
           logged |-> {}],
          [qrCode |-> <<>>, err |-> ImageError,
           logged |-> {<<"Failed to generate QR code image">> \o ImageError}]}

\* What one request did besides answering: the caller's standing, the store
\* reads and Verifier calls it made, and the log records it wrote.
Trace(rec, reads, vcalls, logged) ==
    [rec EXCEPT !.reads = reads, !.vcalls = vcalls, !.logged = logged]

\* History: the standing of the caller of a request towards its target.
Authz(caller, userID) ==
    IF caller \notin Users THEN "absent"
    ELSE IF caller # userID /\ caller # "admin" THEN "denied"
    ELSE "ok"

\* A setup that stores the secret it minted on the account at once.
SetupTOTP_PersistsSecret(r, caller, userID) ==
    /\ Accepting(r)
    /\ UNCHANGED <<now, lastOK, loginVars>>
    /\ \E s \in MintPool :
         /\ store' = IF Authz(caller, userID) = "ok" /\ userID \in Users
                      THEN [store EXCEPT ![userID].TOTPSecret = s]
                      ELSE store
         /\ req' = Accept(r, Trace(Respond("setup", StatusOK, "secret,qrCode",
                                           s, 0), 1, 2, {}))

\* setupTOTP
SetupTOTP(r, caller, userID) ==
    /\ Accepting(r)
    /\ UNCHANGED <<now, store, lastOK, loginVars>>
    /\ \E g \in GenerateSecret(userID) : \E qr \in GenerateQRCode(g.url) :
         LET next ==
               IF caller = NoUser
               THEN Respond("setup", StatusUnauthorized, "Not authenticated", "", 0)
               ELSE IF ~Authorized(caller, userID)
               THEN Respond("setup", StatusForbidden, "Access denied", "", 0)
               ELSE IF ~UserExists(userID)
               THEN Trace(Respond("setup", StatusNotFound, "User not found", "", 0),
                          1, 0, {<<"Failed to get user", "userID", userID>>
                                    \o NotFoundError})
               ELSE IF g.err # NoError
               THEN Trace(Respond("setup", StatusInternalServerError,
                                  "Failed to generate TOTP secret", "", 0),
                          1, 1, g.logged \cup
                                {<<"Failed to generate TOTP secret">> \o g.err})
               ELSE IF qr.err # NoError
               THEN Trace(Respond("setup", StatusInternalServerError,
                                  "Failed to generate QR code", "", 0),
                          1, 2, qr.logged \cup
                                {<<"Failed to generate QR code">> \o qr.err})
               ELSE Trace([Respond("setup", StatusOK, "secret,qrCode", g.secret, 0)
                              EXCEPT !.userID = userID, !.qrCode = qr.qrCode],
                          1, 2, {})
         IN req' = Accept(r, [next EXCEPT !.authz = Authz(caller, userID)])

\* An enable that sets the flag and forgets the secret.
EnabledUser_FlagOnly(user, secret) == [user EXCEPT !.TOTPEnabled = TRUE]

\* enableTOTP: user.TOTPSecret = data.Secret; user.TOTPEnabled = true
EnabledUser(user, secret) ==
    [user EXCEPT !.TOTPSecret = secret, !.TOTPEnabled = TRUE]

\* A disable that clears the flag and keeps the secret.
DisabledUser_FlagOnly(user) == [user EXCEPT !.TOTPEnabled = FALSE]

\* disableTOTP: user.TOTPSecret = ""; user.TOTPEnabled = false
DisabledUser(user) == [user EXCEPT !.TOTPSecret = "", !.TOTPEnabled = FALSE]

\* History: the request is decodable and authorized, and its code is not one
\* an authenticator holding the submitted secret shows within the window.
CodeMiss(caller, userID, body) ==
    /\ body.decodes
    /\ caller # NoUser
    /\ Authorized(caller, userID)
    /\ body.code \notin CodeWindow(body.secret, now)

\* An enable that looks the account up before it validates the code.
EnableTOTP_GetFirst(r, caller, userID, body) ==
    /\ Accepting(r)
    /\ UNCHANGED <<now, store, lastOK, loginVars>>
    /\ LET next ==
           IF ~body.decodes
           THEN Trace(Respond("enable", StatusBadRequest,
                              "Invalid request body", "", 0),
                      0, 0, {<<"Failed to decode request body">> \o DecodeError})
           ELSE IF caller = NoUser
           THEN Respond("enable", StatusUnauthorized, "Not authenticated", "", 0)
           ELSE IF ~Authorized(caller, userID)
           THEN Respond("enable", StatusForbidden, "Access denied", "", 0)
           ELSE IF ~UserExists(userID)
           THEN Trace(Respond("enable", StatusNotFound, "User not found", "", 0),
                      1, 0, {<<"Failed to get user", "userID", userID>>
                                \o NotFoundError})
           ELSE IF ~ValidateCode(body.secret, body.code, now)
           THEN Trace(Respond("enable", StatusBadRequest,
                              "Invalid verification code", "", 0),
                      1, 1, {<<"Invalid TOTP code provided">>,
                             <<"Invalid TOTP code during enable",
                               "userID", userID>>})
           ELSE Trace(HoldUser("enable", userID, body.secret,
                               EnabledUser(store[userID], body.secret)),
                      1, 1, {})
       IN req' = Accept(r,
                    [next EXCEPT !.codeMiss = CodeMiss(caller, userID, body),
                                 !.authz = Authz(caller, userID)])

\* enableTOTP up to and including ds.User(ctx).Get
EnableTOTP(r, caller, userID, body) ==
    /\ Accepting(r)
    /\ UNCHANGED <<now, store, lastOK, loginVars>>
    /\ LET next ==
           IF ~body.decodes
           THEN Trace(Respond("enable", StatusBadRequest,
                              "Invalid request body", "", 0),
                      0, 0, {<<"Failed to decode request body">> \o DecodeError})
           ELSE IF caller = NoUser
           THEN Respond("enable", StatusUnauthorized, "Not authenticated", "", 0)
           ELSE IF ~Authorized(caller, userID)
           THEN Respond("enable", StatusForbidden, "Access denied", "", 0)
           ELSE IF ~ValidateCode(body.secret, body.code, now)
           THEN Trace(Respond("enable", StatusBadRequest,
                              "Invalid verification code", "", 0),
                      0, 1, {<<"Invalid TOTP code provided">>,
                             <<"Invalid TOTP code during enable",
                               "userID", userID>>})
           ELSE IF ~UserExists(userID)
           THEN Trace(Respond("enable", StatusNotFound, "User not found", "", 0),
                      1, 1, {<<"Failed to get user", "userID", userID>>
                                \o NotFoundError})
           ELSE Trace(HoldUser("enable", userID, body.secret,
                               EnabledUser(store[userID], body.secret)),
                      1, 1, {})
       IN req' = Accept(r,
                    [next EXCEPT !.codeMiss = CodeMiss(caller, userID, body),
                                 !.authz = Authz(caller, userID)])

\* disableTOTP up to and including ds.User(ctx).Get
DisableTOTP(r, caller, userID) ==
    /\ Accepting(r)
    /\ UNCHANGED <<now, store, lastOK, loginVars>>
    /\ LET next ==
           IF caller = NoUser
           THEN Respond("disable", StatusUnauthorized, "Not authenticated", "", 0)
           ELSE IF ~Authorized(caller, userID)
           THEN Respond("disable", StatusForbidden, "Access denied", "", 0)
           ELSE IF ~UserExists(userID)
           THEN Trace(Respond("disable", StatusNotFound, "User not found", "", 0),
                      1, 0, {<<"Failed to get user", "userID", userID>>
                                \o NotFoundError})
           ELSE Trace(HoldUser("disable", userID, "",
                               DisabledUser(store[userID])),
                      1, 0, {})
       IN req' = Accept(r, [next EXCEPT !.authz = Authz(caller, userID)])

\* The account store's put(account): the record of the account is replaced
\* by the one handed in, every attribute of it.
Put(accounts, userID, user) == [accounts EXCEPT ![userID] = user]

\* A handler that ignores the error of Put and reports success.
PutUser_IgnoresError(r, storeOK) ==
    /\ req[r].pc = "put"
    /\ UNCHANGED <<now, loginVars>>
    /\ IF storeOK
       THEN /\ store' = Put(store, req[r].userID, req[r].user)
            /\ lastOK' = [lastOK EXCEPT ![req[r].userID] =
                            [op |-> req[r].op, secret |-> req[r].secret]]
       ELSE UNCHANGED <<store, lastOK>>
    /\ req' = Accept(r,
          [req[r] EXCEPT !.pc = "done", !.userID = NoUser, !.secret = "",
                         !.user = NoAccount, !.status = StatusOK,
                         !.puts = @ + 1, !.responses = @ + 1,
                         !.writes = IF storeOK THEN 1 ELSE 0,
                         !.body = IF req[r].op = "enable"
                                  THEN "success,totpEnabled=true"
                                  ELSE "success,totpEnabled=false"])

\* A handler with no return after the error response of a failed Put: it
\* goes on to send the success response too.
PutUser_NoReturn(r, storeOK) ==
    /\ req[r].pc = "put"
    /\ UNCHANGED <<now, loginVars>>
    /\ IF storeOK
       THEN /\ store' = Put(store, req[r].userID, req[r].user)
            /\ lastOK' = [lastOK EXCEPT ![req[r].userID] =
                            [op |-> req[r].op, secret |-> req[r].secret]]
       ELSE UNCHANGED <<store, lastOK>>
    /\ req' = Accept(r,
          [req[r] EXCEPT !.pc = "done", !.userID = NoUser, !.secret = "",
                         !.user = NoAccount, !.status = StatusOK,
                         !.puts = @ + 1,
                         !.responses = IF storeOK THEN @ + 1 ELSE @ + 2,
                         !.writes = IF storeOK THEN 1 ELSE 0,
                         !.body = IF req[r].op = "enable"
                                  THEN "success,totpEnabled=true"
                                  ELSE "success,totpEnabled=false"])

\* ds.User(ctx).Put(user) and the response that follows it, in enableTOTP
\* and disableTOTP alike; storeOK = FALSE is a failing store.
PutUser(r, storeOK) ==
    /\ req[r].pc = "put"
    /\ UNCHANGED <<now, loginVars>>
    /\ LET q == req[r]
           sent == [q EXCEPT !.pc = "done", !.userID = NoUser, !.secret = "",
                             !.user = NoAccount, !.puts = @ + 1,
                             !.responses = @ + 1]
       IN
       IF storeOK
       THEN /\ store' = Put(store, q.userID, q.user)
            /\ lastOK' = [lastOK EXCEPT ![q.userID] =
                            [op |-> q.op, secret |-> q.secret]]
            /\ req' = Accept(r,
                  [sent EXCEPT !.status = StatusOK, !.writes = 1,
                               !.body = IF q.op = "enable"
                                        THEN "success,totpEnabled=true"
                                        ELSE "success,totpEnabled=false"])
       ELSE /\ UNCHANGED <<store, lastOK>>
            /\ req' = Accept(r,
                  [sent EXCEPT !.status = StatusInternalServerError,
                               !.body = IF q.op = "enable"
                                        THEN "Failed to enable TOTP"
                                        ELSE "Failed to disable TOTP",
                               !.logged = {<<"Failed to update user",
                                             "userID", q.userID>> \o StoreError}])

\* runUserEdit with the email flag set, run by someone else while a handler
\* is between its Get and its Put: the Email of the account changes.
RunUserEdit(u, e) ==
    /\ \E r \in Reqs : req[r].pc = "put" /\ req[r].userID = u
    /\ store[u].Email # e
    /\ store' = [store EXCEPT ![u].Email = e]
    /\ UNCHANGED <<now, req, lastOK, loginVars>>

\* The wall clock advances by d seconds, no further than horizon seconds
\* after the start.
Advance(d, horizon) ==
    /\ now + d <= StartTime + horizon
    /\ now' = now + d

\* One time step passes.
Tick ==
    /\ Advance(Period, MaxTicks * Period)
    /\ UNCHANGED <<enrollVars, loginVars>>

\* ------------------------------------------------------------- login
IdleCall == [pc |-> "idle", tok |-> 0, subject |-> NoUser, proof |-> FALSE]
NoVerifyResp == [resp |-> "none", stage |-> "none", tok |-> 0, proof |-> FALSE,
                 was |-> "none"]

\* History: what the token presented was when the request looked at it.
TokenWas(t) ==
    IF t \notin DOMAIN tokens THEN "unknown"
    ELSE IF tokens[t].consumed THEN "consumed"
    ELSE IF now > tokens[t].expiresAt THEN "expired"
    ELSE "live"

\* A lookup that finds consumed tokens too.
TokenLive_IgnoresConsumed(t) == t \in DOMAIN tokens

\* The token is known and has not been consumed.
TokenLive(t) == t \in DOMAIN tokens /\ ~tokens[t].consumed

\* A lookup that never compares the clock with expiresAt.
TokenExpired_Never(t, clock) == FALSE

\* Lazy expiry: the wall clock is compared with expiresAt at lookup time.
TokenExpired(t, clock) == clock > tokens[t].expiresAt

\* A token whose lifetime is one time step instead of TokenTTL.
IssuePendingToken_ShortLived(u) ==
    tokens' = Append(tokens, [subjectUserID |-> u, issuedAt |-> now,
                              expiresAt |-> now + Period, consumed |-> FALSE])

\* IssuePendingToken(userID)
IssuePendingToken(u) ==
    tokens' = Append(tokens, [subjectUserID |-> u, issuedAt |-> now,
                              expiresAt |-> now + TokenTTL, consumed |-> FALSE])

\* The identity a completed verification is for: the one bound to the token;
\* claimed is whatever identity the verify request itself suggests.
SessionSubject(t, claimed) == tokens[t].subjectUserID

\* A login that asks every account for a second factor.
SecondFactorRequired_Always(u) == TRUE

\* The account has the second factor enabled.
SecondFactorRequired(u) == store[u].TOTPEnabled

\* Login step 1: {username, password}
Login(u, pw) ==
    /\ UNCHANGED <<now, enrollVars, vcall, verifyResp, retried>>
    /\ IF pw # Password(u)
       THEN /\ loginResp' = "failed"
            /\ UNCHANGED <<tokens, sessions>>
       ELSE IF SecondFactorRequired(u)
       THEN /\ Len(tokens) < MaxTokens
            /\ IssuePendingToken(u)
            /\ loginResp' = "totpRequired"
            /\ UNCHANGED sessions
       ELSE /\ sessions' = sessions \cup
                  {[user |-> u, via |-> "login", tok |-> 0, n |-> 0,
                    secondFactor |-> "notRequired"]}
            /\ loginResp' = "session"
            /\ UNCHANGED tokens

\* The response of a login step-2 request; proof records whether the code
\* presented was one the bound account's authenticator shows.
VerifyRespond(w, t, proof, resp, stage) ==
    /\ vcall' = [vcall EXCEPT ![w] = IdleCall]
    /\ verifyResp' = [resp |-> resp, stage |-> stage, tok |-> t, proof |-> proof,
                      was |-> TokenWas(t)]
    /\ retried' = IF resp = "InvalidCode" THEN retried \cup {t} ELSE retried

\* A failed verification that also invalidates the token.
RejectVerify_BurnsToken(w, t, proof, resp) ==
    /\ VerifyRespond(w, t, proof, resp, "lookup")
    /\ tokens' = [i \in DOMAIN tokens |->
                    IF i = t THEN [tokens[i] EXCEPT !.consumed = TRUE]
                    ELSE tokens[i]]
    /\ UNCHANGED sessions

\* VerifyAndComplete fails at lookup: the token store is left as it is.
RejectVerify(w, t, proof, resp) ==
    /\ VerifyRespond(w, t, proof, resp, "lookup")
    /\ UNCHANGED <<tokens, sessions>>

\* VerifyAndComplete(token, code), first part: look the token up, compare
\* the clock with its expiry and validate the code against the stored secret
\* of the bound account.
VerifyLookup(w, t, code, claimed) ==
    /\ vcall[w].pc = "idle"
    /\ UNCHANGED <<now, enrollVars, loginResp>>
    /\ LET proof == /\ t \in DOMAIN tokens
                    /\ code \in CodeWindow(
                           store[tokens[t].subjectUserID].TOTPSecret, now)
       IN
       IF ~TokenLive(t)
       THEN RejectVerify(w, t, proof, "InvalidToken")
       ELSE IF TokenExpired(t, now)
       THEN RejectVerify(w, t, proof, "Expired")
       ELSE IF ~ValidateCode(store[tokens[t].subjectUserID].TOTPSecret, code, now)
       THEN RejectVerify(w, t, proof, "InvalidCode")
       ELSE /\ vcall' = [vcall EXCEPT ![w] =
                        [pc |-> "validated", tok |-> t,
                         subject |-> SessionSubject(t, claimed),
                         proof |-> proof]]
            /\ UNCHANGED <<tokens, sessions, verifyResp, retried>>

\* A consumption that trusts the lookup and does not check the token again.
VerifyConsume_NoRecheck(w) ==
    /\ vcall[w].pc = "validated"
    /\ UNCHANGED <<now, enrollVars, loginResp>>
    /\ LET c == vcall[w] IN
       /\ tokens' = [tokens EXCEPT ![c.tok].consumed = TRUE]
       /\ sessions' = sessions \cup
             {[user |-> c.subject, via |-> "verify", tok |-> c.tok,
               n |-> 1 + Cardinality({s \in sessions : s.via = "verify"}),
               secondFactor |-> IF c.proof THEN "verified" ELSE "missing"]}
       /\ VerifyRespond(w, c.tok, c.proof, "OK", "consume")

\* VerifyAndComplete, second part: the atomic check-and-invalidate of the
\* token, and the full session for the bound identity.
VerifyConsume(w) ==
    /\ vcall[w].pc = "validated"
    /\ UNCHANGED <<now, enrollVars, loginResp>>
    /\ LET c == vcall[w] IN
       IF ~TokenLive(c.tok)
       THEN /\ VerifyRespond(w, c.tok, c.proof, "InvalidToken", "consume")
            /\ UNCHANGED <<tokens, sessions>>
       ELSE /\ tokens' = [tokens EXCEPT ![c.tok].consumed = TRUE]
            /\ sessions' = sessions \cup
                  {[user |-> c.subject, via |-> "verify", tok |-> c.tok,
                    n |-> 1 + Cardinality({s \in sessions : s.via = "verify"}),
                    secondFactor |-> IF c.proof THEN "verified" ELSE "missing"]}
            /\ VerifyRespond(w, c.tok, c.proof, "OK", "consume")

\* A whole token lifetime passes with no request.
Lapse ==
    /\ Advance(TokenTTL, MaxTicks * Period + MaxLapses * TokenTTL)
    /\ UNCHANGED <<enrollVars, loginVars>>

\* ------------------------------------- the TOTPService called directly
NoCall == [op |-> "none", user |-> "", secret |-> "", code |-> ZeroCode,
           url |-> <<>>, at |-> 0, ok |-> FALSE, qrCode |-> <<>>,
           err |-> NoError, logged |-> {}, n |-> 0, since |-> 0]

\* Users as the caller passes them: UserName may be empty.
UserNames == Users \cup {""}

\* The codes a caller presents with a secret at time t: those of the five
\* steps around t, the current code of another secret, "000000", "12345".
ServiceCodes(s, t) ==
    {GenerateCode(s, t + d * Period) : d \in (0 - 2)..2}
        \cup {GenerateCode(IF s = SecretA THEN SecretB ELSE SecretA, t),
              ZeroCode, ShortCode}

\* The strings a caller passes to GenerateQRCode: provisioning URLs as
\* GenerateSecret returns them, a string that is no URL at all, and a
\* provisioning URL with an invalid percent escape in its label.
PlainText == <<"invalid-url">>
QRInputs ==
    {ProvisioningURL(u, s) : u \in Users, s \in MintPool}
        \cup {PlainText, ProvisioningURL(BadEscape, SecretA)}

\* service.GenerateSecret(ctx, user)
CallGenerateSecret(userName) ==
    /\ \E g \in GenerateSecret(userName) :
         svc' = [NoCall EXCEPT !.op = "GenerateSecret", !.user = userName,
                               !.secret = g.secret, !.url = g.url, !.at = now,
                               !.ok = (g.err = NoError), !.err = g.err,
                               !.logged = g.logged]
    /\ UNCHANGED <<now, enrollVars, loginVars, minted, extVars>>

\* service.ValidateCode(ctx, secret, code); n counts the calls with the
\* same secret and code that were accepted just before this one, the first
\* of them at time since.
CallValidateCode(secret, code) ==
    LET again == /\ svc.op = "ValidateCode" /\ svc.ok
                 /\ svc.secret = secret /\ svc.code = code
        valid == ValidateCode(secret, code, now)
    IN  /\ again => svc.n < MaxCalls
        /\ svc' = [NoCall EXCEPT !.op = "ValidateCode", !.secret = secret,
                                 !.code = code, !.at = now, !.ok = valid,
                                 !.n = IF again THEN svc.n + 1 ELSE 0,
                                 !.since = IF again THEN svc.since ELSE now,
                                 !.logged = IF valid THEN {}
                                            ELSE {<<"Invalid TOTP code provided">>}]
        /\ UNCHANGED <<now, enrollVars, loginVars, minted, extVars>>

\* service.GenerateQRCode(ctx, user, url)
CallGenerateQRCode(url) ==
    /\ \E q \in GenerateQRCode(url) :
         svc' = [NoCall EXCEPT !.op = "GenerateQRCode", !.url = url, !.at = now,
                               !.ok = (q.err = NoError), !.qrCode = q.qrCode,
                               !.err = q.err, !.logged = q.logged]
    /\ UNCHANGED <<now, enrollVars, loginVars, minted, extVars>>

\* History: a setup answered in slot r with a secret for an account.
ObserveSetup(r) ==
    minted' = IF req'[r].op = "setup" /\ req'[r].status = StatusOK
              THEN [minted EXCEPT ![req'[r].userID] = @ \cup {req'[r].secret}]
              ELSE minted

\* History: what an enrollment request asks for, as the claims put it:
\* whether the body decodes, a caller is present, the caller is the owner or
\* an administrator, the code is inside the window of the submitted secret
\* and the target account exists; storeOK is the outcome of its Put.
NoAsk == [op |-> "none", decodes |-> FALSE, present |-> FALSE, allowed |-> FALSE,
          valid |-> FALSE, exists |-> FALSE, storeOK |-> "none"]

ObserveRequest(op, caller, userID, body) ==
    ask' = [op |-> op, decodes |-> body.decodes,
            present |-> caller \in Users,
            allowed |-> (caller = userID \/ caller = "admin"),
            valid |-> body.code \in CodeWindow(body.secret, now),
            exists |-> userID \in Users,
            storeOK |-> "none"]

ObservePut(storeOK) ==
    ask' = [ask EXCEPT !.storeOK = IF storeOK THEN "ok" ELSE "failed"]

\* ------------------------------- the user table and its migration
\* The columns of the user table before the migration (those the model
\* follows) and the two the migration adds.  A cell is the text of its
\* value: a BOOL column holds "0" or "1".
BaseColumns == {"user_name", "email"}
TotpColumns == {"totp_secret", "totp_enabled"}
Emails == {"", "newemail@example.com"}

\* An Up step whose new flag column defaults to TRUE.
ColumnDefault_Enabled(c) == IF c = "totp_enabled" THEN "1" ELSE ""

\* The DEFAULT clauses of the two ADD COLUMN statements: '' and FALSE.
ColumnDefault(c) == IF c = "totp_enabled" THEN "0" ELSE ""

\* The row of a user as a first Put writes it under the columns cols.
NewRow(u, cols) ==
    [c \in cols |-> IF c = "user_name" THEN u ELSE ColumnDefault(c)]

\* The table before the migration, with the administrator in it.
InitDb ==
    [applied |-> FALSE, columns |-> BaseColumns,
     rows |-> [u \in {"admin"} |-> NewRow(u, BaseColumns)],
     op |-> "none", before |-> [u \in {"admin"} |-> NewRow(u, BaseColumns)]]

\* The account ds.User(ctx).Get scans from a row of the migrated table.
LoadUser(row) ==
    [TOTPSecret |-> row["totp_secret"], TOTPEnabled |-> row["totp_enabled"] = "1",
     Email |-> row["email"]]

\* The accounts the server finds in the table.
StoreOf(d) ==
    [u \in Users |-> IF d.applied /\ u \in DOMAIN d.rows
                     THEN LoadUser(d.rows[u]) ELSE NoAccount]

\* A statement on the user table: the table becomes d; the requests, the
\* clock and the login state are not involved.
Execute(d) ==
    /\ db' = d
    /\ store' = StoreOf(d)
    /\ UNCHANGED <<now, req, lastOK, loginVars, minted, svc, bk, dlg, ask>>

\* A migration step runs when the server starts: the table becomes d and
\* no login response of the server that ran before is outstanding.
Migrate(d) ==
    /\ db' = d
    /\ store' = StoreOf(d)
    /\ loginResp' = "none"
    /\ UNCHANGED <<now, req, lastOK, tokens, sessions, vcall, verifyResp,
                   retried, minted, svc, bk, dlg, ask>>

\* goose Up: ALTER TABLE user ADD COLUMN totp_secret ... DEFAULT '';
\*           ALTER TABLE user ADD COLUMN totp_enabled ... DEFAULT FALSE
GooseUp ==
    /\ ~db.applied
    /\ Migrate([applied |-> TRUE, columns |-> db.columns \cup TotpColumns,
                rows |-> [u \in DOMAIN db.rows |->
                            [c \in db.columns \cup TotpColumns |->
                               IF c \in db.columns THEN db.rows[u][c]
                               ELSE ColumnDefault(c)]],
                op |-> "Up", before |-> db.rows])

\* goose Down: ALTER TABLE user DROP COLUMN totp_secret;
\*             ALTER TABLE user DROP COLUMN totp_enabled
GooseDown ==
    /\ db.applied
    /\ Migrate([applied |-> FALSE, columns |-> db.columns \ TotpColumns,
                rows |-> [u \in DOMAIN db.rows |->
                            [c \in db.columns \ TotpColumns |-> db.rows[u][c]]],
                op |-> "Down", before |-> db.before])

\* ds.User(ctx).Put of a user who has no row yet
InsertUser(u) ==
    /\ u \notin DOMAIN db.rows
    /\ Execute([db EXCEPT !.rows = [v \in DOMAIN db.rows \cup {u} |->
                                       IF v = u THEN NewRow(u, db.columns)
                                       ELSE db.rows[v]],
                          !.op = "Insert"])

\* runUserEdit with the email flag set
EditEmail(u, e) ==
    /\ u \in DOMAIN db.rows
    /\ db.rows[u]["email"] # e
    /\ Execute([db EXCEPT !.rows[u]["email"] = e, !.op = "Edit"])

\* The Put of an enable or disable request, on the migrated table.
WriteTOTP(u, user) ==
    /\ db.applied
    /\ u \in DOMAIN db.rows
    /\ \/ LoadUser(db.rows[u]).TOTPSecret # user.TOTPSecret
       \/ LoadUser(db.rows[u]).TOTPEnabled # user.TOTPEnabled
    /\ Execute([db EXCEPT !.rows[u]["totp_secret"] = user.TOTPSecret,
                          !.rows[u]["totp_enabled"] =
                              IF user.TOTPEnabled THEN "1" ELSE "0",
                          !.op = "Put"])

\* Login step 1 of an account of the migrated table.
MigratedLogin(u, pw) ==
    /\ db.applied
    /\ u \in DOMAIN db.rows
    /\ Login(u, pw)
    /\ UNCHANGED obsVars

\* ------------------------------------------- the backup commands
BackupCount == 3      \* conf.Server.Backup.Count
DbSize == 4096        \* bytes of the database file that is backed up

\* The two decimal digits of n < 100.
TwoDigits(n) == <<n \div 10, n % 10>>

\* The timestamp of a file name: the date as 8 digits and the time of day
\* as 6 digits, to the second.
DateDigits(t) == <<2, 0, 2, 6, 0, 1>> \o TwoDigits(1 + t \div 86400)
ClockDigits(t) ==
    LET s == t % 86400
    IN  TwoDigits(s \div 3600) \o TwoDigits((s % 3600) \div 60)
            \o TwoDigits(s % 60)

\* navidrome-<date>-<time>.db for a backup started at time t
BackupName(t) ==
    [prefix |-> "navidrome-", date |-> DateDigits(t), time |-> ClockDigits(t),
     suffix |-> ".db"]

\* The time a backup file name stands for, in seconds.
NameTime(name) ==
    LET d == name.date
        c == name.time
    IN  (d[7] * 10 + d[8] - 1) * 86400
            + (c[1] * 10 + c[2]) * 3600 + (c[3] * 10 + c[4]) * 60
            + c[5] * 10 + c[6]

NoBackups ==
    [files |-> {}, op |-> "none", runs |-> 0, added |-> 0, clobbered |-> FALSE,
     pruned |-> FALSE, k |-> 0, force |-> FALSE, had |-> {}]

\* runBackup: the database is written to the file named after the time
\* the backup starts at; a file of that name is written over.
RunBackup ==
    /\ bk.runs < MaxBackups
    /\ LET new == [name |-> BackupName(now), size |-> DbSize,
                   run |-> bk.runs + 1]
           kept == {f \in bk.files : f.name # new.name}
       IN  bk' = [bk EXCEPT !.files = kept \cup {new}, !.op = "backup",
                            !.runs = @ + 1,
                            !.added = Cardinality(kept \cup {new})
                                         - Cardinality(bk.files),
                            !.clobbered = (kept # bk.files),
                            !.had = bk.files]
    /\ UNCHANGED <<now, enrollVars, loginVars, minted, svc, db, dlg, ask>>

\* A prune that keeps the oldest files.
Prune_KeepsOldest(files, k) ==
    IF Cardinality(files) <= k THEN files
    ELSE {f \in files :
            Cardinality({g \in files : NameTime(g.name) < NameTime(f.name)}) < k}

\* db.Prune: of the backup files, the k with the latest names stay.
Prune(files, k) ==
    IF Cardinality(files) <= k THEN files
    ELSE {f \in files :
            Cardinality({g \in files : NameTime(g.name) > NameTime(f.name)}) < k}

\* The keep count of a prune: the backupCount flag, or the configured
\* count when the flag is negative.
KeepCount(backupCount) ==
    IF backupCount < 0 THEN BackupCount ELSE backupCount

\* runPrune; without the force flag a keep count of 0 asks for a
\* confirmation, which is given or not.
RunPrune(backupCount, force, confirmed) ==
    LET k == KeepCount(backupCount)
        go == force \/ k # 0 \/ confirmed
    IN  /\ bk' = [bk EXCEPT !.files = IF go THEN Prune(bk.files, k) ELSE bk.files,
                            !.op = "prune", !.k = k, !.force = force,
                            !.pruned = TRUE, !.had = bk.files]
        /\ UNCHANGED <<now, enrollVars, loginVars, minted, svc, db, dlg, ask>>

\* A second passes between two commands.
Second ==
    /\ Advance(1, MaxSeconds)
    /\ UNCHANGED <<enrollVars, loginVars, obsVars>>

\* ----------------------------------------------- TOTPSetupDialog
Min(a, b) == IF a < b THEN a ELSE b

\* Text is the sequence of its characters.
DigitChars == {"0", "1", "2", "3", "4", "5", "6", "7", "8", "9"}
IsDigit(ch) == ch \in DigitChars
CodeLength == 6

\* An input filter that takes the non-digits out and keeps every digit.
CodeFilter_DigitsOnly(raw) == SelectSeq(raw, IsDigit)

\* e.target.value.replace(/\D/g, '').slice(0, 6)
CodeFilter(raw) ==
    LET digits == SelectSeq(raw, IsDigit)
    IN  SubSeq(digits, 1, Min(CodeLength, Len(digits)))

\* What the text field can hand to onChange when it shows code: a key
\* typed at the end, the last character deleted, or a text pasted over it.
Pasted == {<<"1", "2", "3", " ", "4", "5", "6">>,
           <<"1", "2", "3", "4", "5", "6", "7", "8">>}
RawInputs(code) ==
    {code \o <<ch>> : ch \in {"7", "x"}}
        \cup {SubSeq(code, 1, Len(code) - 1)}
        \cup Pasted

DialogUser == "alice"                        \* the userId prop
InvalidTOTPCode == "resources.user.validations.invalidTOTPCode"
SetupErrors == {"Access denied", "Failed to generate QR code"}

\* The bodies of the 200 responses of setupTOTP for the user.
SetupResponses(userID) ==
    {[secret |-> g.secret, qrCode |-> q.qrCode] :
        g \in {x \in GenerateSecret(userID) : x.err = NoError},
        q \in {y \in UNION {GenerateQRCode(x.url) : x \in GenerateSecret(userID)} :
                 y.err = NoError}}

NoSent == [secret |-> "", code |-> <<>>, session |-> 0, loading |-> FALSE,
           others |-> 0]
NoGot == [secret |-> "", session |-> 0, open |-> FALSE]
NoFlight == [kind |-> "none", secret |-> "", code |-> <<>>, session |-> 0]
Shown(d) == [step |-> d.step, secret |-> d.secret, qrCode |-> d.qrCode,
             code |-> d.code, error |-> d.error]

\* The dialog as TOTPField mounts it: closed, on step 1, everything empty.
\* flights are the requests without a response yet; the rest is history:
\* the number of the session, the last notification, the last enable
\* request sent, the last setup response that succeeded, the last event with
\* the request it answered and what the dialog held before it.
ClosedDialog ==
    [open |-> FALSE, enabled |-> FALSE,
     step |-> 1, qrCode |-> <<>>, secret |-> "", code |-> <<>>,
     loading |-> FALSE, error |-> "",
     flights |-> {}, session |-> 0, notified |-> "none", sent |-> NoSent,
     got |-> NoGot, last |-> "none", answered |-> NoFlight,
     was |-> [step |-> 1, secret |-> "", qrCode |-> <<>>, code |-> <<>>,
              error |-> ""]]

\* The event named has taken the dialog to d.
DialogEvent(name, answered, d) ==
    /\ dlg' = [d EXCEPT !.last = name, !.answered = answered,
                        !.was = Shown(dlg)]
    /\ UNCHANGED <<now, enrollVars, loginVars, minted, svc, db, bk, ask>>

\* handleClose
HandleClose(d) ==
    [d EXCEPT !.step = 1, !.qrCode = <<>>, !.secret = "", !.code = <<>>,
              !.error = "", !.open = FALSE]

\* handleGenerateSecret up to the await
HandleGenerateSecret(d) ==
    [d EXCEPT !.loading = TRUE, !.error = "",
              !.flights = @ \cup {[kind |-> "setup", secret |-> "",
                                   code |-> <<>>, session |-> d.session]}]

\* handleEnableTOTP up to the await
HandleEnableTOTP(d) ==
    IF d.code = <<>> \/ Len(d.code) # CodeLength
    THEN [d EXCEPT !.error = InvalidTOTPCode]
    ELSE [d EXCEPT !.loading = TRUE, !.error = "",
                   !.flights = @ \cup {[kind |-> "enable", secret |-> d.secret,
                                        code |-> d.code, session |-> d.session]},
                   !.sent = [secret |-> d.secret, code |-> d.code,
                             session |-> d.session, loading |-> d.loading,
                             others |-> Cardinality(d.flights)]]

\* TOTPField: the setup button, shown while the account is not enrolled
OpenDialog ==
    /\ ~dlg.open /\ ~dlg.enabled
    /\ dlg.session < MaxSessions
    /\ DialogEvent("OpenDialog", NoFlight,
                   [dlg EXCEPT !.open = TRUE, !.session = @ + 1])

\* The generate button: shown on step 1, disabled while loading.
ClickGenerate ==
    /\ dlg.open /\ dlg.step = 1 /\ ~dlg.loading
    /\ DialogEvent("ClickGenerate", NoFlight, HandleGenerateSecret(dlg))

\* handleGenerateSecret after the await: the request succeeded
SetupResolved(f, resp) ==
    /\ f \in dlg.flights /\ f.kind = "setup"
    /\ DialogEvent("SetupResolved", f,
          [dlg EXCEPT !.secret = resp.secret, !.qrCode = resp.qrCode,
                      !.step = 2, !.loading = FALSE, !.flights = @ \ {f},
                      !.got = [secret |-> resp.secret, session |-> dlg.session,
                               open |-> dlg.open]])

\* handleGenerateSecret after the await: the request failed
SetupRejected(f, message) ==
    /\ f \in dlg.flights /\ f.kind = "setup"
    /\ DialogEvent("SetupRejected", f,
          [dlg EXCEPT !.notified = "totpSetupFailed", !.error = message,
                      !.loading = FALSE, !.flights = @ \ {f}])

\* onChange of the code field: shown on step 2, disabled while loading
InputCode(raw) ==
    /\ dlg.open /\ dlg.step = 2 /\ ~dlg.loading
    /\ DialogEvent("InputCode", NoFlight, [dlg EXCEPT !.code = CodeFilter(raw)])

\* The enable button: shown on step 2, disabled while loading and while
\* the code has not 6 characters.
ClickEnable ==
    /\ dlg.open /\ dlg.step = 2
    /\ ~(dlg.loading \/ Len(dlg.code) # CodeLength)
    /\ DialogEvent("ClickEnable", NoFlight, HandleEnableTOTP(dlg))

\* handleEnableTOTP after the await: the request succeeded
EnableResolved(f) ==
    /\ f \in dlg.flights /\ f.kind = "enable"
    /\ DialogEvent("EnableResolved", f,
          [HandleClose(dlg) EXCEPT !.notified = "totpEnabled", !.enabled = TRUE,
                                   !.loading = FALSE, !.flights = @ \ {f}])

\* A failed enable that closes the dialog.
EnableRejected_Resets(f) ==
    /\ f \in dlg.flights /\ f.kind = "enable"
    /\ DialogEvent("EnableRejected", f,
          [HandleClose(dlg) EXCEPT !.notified = "totpEnableFailed",
                                   !.error = InvalidTOTPCode,
                                   !.loading = FALSE, !.flights = @ \ {f}])

\* handleEnableTOTP after the await: the request failed
EnableRejected(f) ==
    /\ f \in dlg.flights /\ f.kind = "enable"
    /\ DialogEvent("EnableRejected", f,
          [dlg EXCEPT !.notified = "totpEnableFailed", !.error = InvalidTOTPCode,
                      !.loading = FALSE, !.flights = @ \ {f}])

\* The cancel button: disabled while loading.
ClickCancel ==
    /\ dlg.open /\ ~dlg.loading
    /\ DialogEvent("ClickCancel", NoFlight, HandleClose(dlg))

\* onClose of the Dialog and of its title: the Escape key, a click on the
\* backdrop or on the close button, at any time.
Dismiss ==
    /\ dlg.open
    /\ DialogEvent("Dismiss", NoFlight, HandleClose(dlg))

\* ------------------------------------------------------ specifications
InitObs ==
    /\ minted = [u \in Users |-> {}]
    /\ svc = NoCall
    /\ db = InitDb
    /\ bk = NoBackups
    /\ dlg = ClosedDialog
    /\ ask = NoAsk

InitLogin ==
    /\ tokens = <<>>
    /\ sessions = {}
    /\ loginResp = "none"
    /\ vcall = [w \in Verifiers |-> IdleCall]
    /\ verifyResp = NoVerifyResp
    /\ retried = {}

Init ==
    /\ now = StartTime
    /\ store = [u \in Users |-> NoAccount]
    /\ req = [r \in Reqs |-> IdleReq]
    /\ lastOK = [u \in Users |-> [op |-> "none", secret |-> ""]]
    /\ InitLogin
    /\ InitObs

\* The enrollment handlers, with up to MaxReqs requests in flight.
Next ==
    \/ \E r \in Reqs, caller \in Callers, userID \in TargetIDs :
          SetupTOTP(r, caller, userID) /\ UNCHANGED obsVars
    \/ \E r \in Reqs, caller \in Callers, userID \in TargetIDs,
          body \in Bodies(now) :
          EnableTOTP(r, caller, userID, body) /\ UNCHANGED obsVars
    \/ \E r \in Reqs, caller \in Callers, userID \in TargetIDs :
          DisableTOTP(r, caller, userID) /\ UNCHANGED obsVars
    \/ \E r \in Reqs, storeOK \in BOOLEAN :
          PutUser(r, storeOK) /\ UNCHANGED obsVars
    \/ Tick /\ UNCHANGED obsVars

Spec == Init /\ [][Next]_vars

\* The login flow runs over a user store in any state the enrollment
\* handlers can leave it in.
LoginStores ==
    {[admin |-> NoAccount, alice |-> NoAccount],
     [admin |-> Enrolled(SecretA), alice |-> NoAccount],
     [admin |-> Enrolled(SecretA), alice |-> Enrolled(SecretB)],
     [admin |-> Enrolled(SecretA), alice |-> Enrolled(EmptySecret)]}

LoginInit ==
    /\ now = StartTime
    /\ store \in LoginStores
    /\ req = [r \in Reqs |-> IdleReq]
    /\ lastOK = [u \in Users |->
                   IF store[u].TOTPEnabled
                   THEN [op |-> "enable", secret |-> store[u].TOTPSecret]
                   ELSE [op |-> "none", secret |-> ""]]
    /\ InitLogin
    /\ InitObs

LoginNext ==
    \/ \E u \in Users, pw \in Passwords : Login(u, pw) /\ UNCHANGED obsVars
    \/ \E w \in Verifiers, t \in TokenIDs, code \in CodeInputs(now),
          claimed \in Users :
          VerifyLookup(w, t, code, claimed) /\ UNCHANGED obsVars
    \/ \E w \in Verifiers : VerifyConsume(w) /\ UNCHANGED obsVars
    \/ Tick /\ UNCHANGED obsVars
    \/ Lapse /\ UNCHANGED obsVars

LoginSpec == LoginInit /\ [][LoginNext]_vars

\* The enrollment handlers serving one request at a time, with the secrets
\* that setup hands out on record.
AuditNext ==
    \/ \E caller \in Callers, userID \in TargetIDs :
          SetupTOTP(1, caller, userID) /\ ObserveSetup(1)
             /\ UNCHANGED <<svc, extVars>>
    \/ \E caller \in Callers, userID \in TargetIDs, body \in Bodies(now) :
          EnableTOTP(1, caller, userID, body) /\ UNCHANGED obsVars
    \/ \E caller \in Callers, userID \in TargetIDs :
          DisableTOTP(1, caller, userID) /\ UNCHANGED obsVars
    \/ \E storeOK \in BOOLEAN : PutUser(1, storeOK) /\ UNCHANGED obsVars
    \/ Tick /\ UNCHANGED obsVars

AuditSpec == Init /\ [][AuditNext]_vars

\* The TOTPService called directly, as its tests call it, and setupTOTP
\* calling it.
ServiceNext ==
    \/ \E userName \in UserNames : CallGenerateSecret(userName)
    \/ \E secret \in SecretInputs :
          \E code \in ServiceCodes(secret, now) : CallValidateCode(secret, code)
    \/ \E url \in QRInputs : CallGenerateQRCode(url)
    \/ \E caller \in Callers, userID \in TargetIDs :
          SetupTOTP(1, caller, userID) /\ UNCHANGED obsVars
    \/ Tick /\ UNCHANGED obsVars

ServiceSpec == Init /\ [][ServiceNext]_vars

\* The migration applied to and taken back from a user table in use.
MigrationNext ==
    \/ GooseUp
    \/ GooseDown
    \/ \E u \in Users : InsertUser(u)
    \/ \E u \in Users, e \in Emails : EditEmail(u, e)
    \/ \E u \in Users, user \in {Enrolled(SecretA), NoAccount} : WriteTOTP(u, user)
    \/ \E u \in Users, pw \in Passwords : MigratedLogin(u, pw)

MigrationSpec == Init /\ [][MigrationNext]_vars

\* The backup and prune commands run one after the other.
BackupCounts == {0 - 2, 0 - 1, 0, 2, 3, 10}
BackupNext ==
    \/ RunBackup
    \/ \E backupCount \in BackupCounts, force \in BOOLEAN, confirmed \in BOOLEAN :
          RunPrune(backupCount, force, confirmed)
    \/ Second

BackupSpec == Init /\ [][BackupNext]_vars

\* The enrollment handlers serving one request at a time, with what each
\* request asked for on record.
NoBody == [decodes |-> TRUE, secret |-> "", code |-> ZeroCode]
OrderNext ==
    \/ \E caller \in Callers, userID \in TargetIDs :
          /\ SetupTOTP(1, caller, userID)
          /\ ObserveRequest("setup", caller, userID, NoBody)
          /\ UNCHANGED <<minted, svc, db, bk, dlg>>
    \/ \E caller \in Callers, userID \in TargetIDs, body \in Bodies(now) :
          /\ EnableTOTP(1, caller, userID, body)
          /\ ObserveRequest("enable", caller, userID, body)
          /\ UNCHANGED <<minted, svc, db, bk, dlg>>
    \/ \E caller \in Callers, userID \in TargetIDs :
          /\ DisableTOTP(1, caller, userID)
          /\ ObserveRequest("disable", caller, userID, NoBody)
          /\ UNCHANGED <<minted, svc, db, bk, dlg>>
    \/ \E storeOK \in BOOLEAN :
          /\ PutUser(1, storeOK)
          /\ ObservePut(storeOK)
          /\ UNCHANGED <<minted, svc, db, bk, dlg>>
    \/ Tick /\ UNCHANGED obsVars

OrderSpec == Init /\ [][OrderNext]_vars

\* The enrollment handlers serving one request at a time while the user
\* edit command changes accounts under them.
FrameNext ==
    \/ \E caller \in Callers, userID \in TargetIDs, body \in Bodies(now) :
          EnableTOTP(1, caller, userID, body) /\ UNCHANGED obsVars
    \/ \E caller \in Callers, userID \in TargetIDs :
          DisableTOTP(1, caller, userID) /\ UNCHANGED obsVars
    \/ \E storeOK \in BOOLEAN : PutUser(1, storeOK) /\ UNCHANGED obsVars
    \/ \E u \in Users, e \in Emails : RunUserEdit(u, e) /\ UNCHANGED obsVars
    \/ Tick /\ UNCHANGED obsVars

FrameSpec == Init /\ [][FrameNext]_vars

\* The setup dialog, its user and the answers of the server.
DialogNext ==
    \/ OpenDialog
    \/ ClickGenerate
    \/ \E f \in dlg.flights, resp \in SetupResponses(DialogUser) :
          SetupResolved(f, resp)
    \/ \E f \in dlg.flights, message \in SetupErrors : SetupRejected(f, message)
    \/ \E raw \in RawInputs(dlg.code) : InputCode(raw)
    \/ ClickEnable
    \/ \E f \in dlg.flights : EnableResolved(f)
    \/ \E f \in dlg.flights : EnableRejected(f)
    \/ ClickCancel
    \/ Dismiss

DialogSpec == Init /\ [][DialogNext]_vars

\* ---------------------------------------------------------------- claims
VerifySessions(t) == {s \in sessions : s.via = "verify" /\ s.tok = t}

\* C1: a full session of an account with enabled=true comes only from
\* VerifyAndComplete on a pending token issued for that same account (the
\* identity is the one bound to the token, the token is consumed by it) and
\* with a code inside the window of the account's stored secret.
C1_SessionOnlyViaBoundToken ==
    \A s \in sessions :
        store[s.user].TOTPEnabled =>
            /\ s.via = "verify"
            /\ s.tok \in DOMAIN tokens
            /\ tokens[s.tok].subjectUserID = s.user
            /\ tokens[s.tok].consumed
            /\ s.secondFactor = "verified"

C1_Witness ==
    \E s \in sessions :
        /\ store[s.user].TOTPEnabled
        /\ s.via = "verify"
        /\ verifyResp.resp = "OK"

\* C2: a login with the correct password for an account with enabled=true
\* issues no session; it adds exactly one pending token, bound to the account,
\* with issuedAt = now and expiresAt = issuedAt + 5 minutes.
C2_EnabledLoginIssuesOnePendingToken ==
    [][\A u \in Users :
          (Login(u, Password(u)) /\ store[u].TOTPEnabled) =>
              /\ sessions' = sessions
              /\ loginResp' = "totpRequired"
              /\ Len(tokens') = Len(tokens) + 1
              /\ SubSeq(tokens', 1, Len(tokens)) = tokens
              /\ tokens'[Len(tokens')] =
                    [subjectUserID |-> u, issuedAt |-> now,
                     expiresAt |-> now + 5 * 60, consumed |-> FALSE]]_vars

C2_Witness ==
    /\ loginResp = "totpRequired"
    /\ \E t \in DOMAIN tokens :
          /\ store[tokens[t].subjectUserID].TOTPEnabled
          /\ tokens[t].issuedAt = now

\* C3: a login with the correct password for an account with enabled=false
\* issues a full session for that account at once and creates no token.
C3_DisabledLoginIssuesSession ==
    [][\A u \in Users :
          (Login(u, Password(u)) /\ ~store[u].TOTPEnabled) =>
              /\ tokens' = tokens
              /\ loginResp' = "session"
              /\ \E s \in sessions' : s.user = u /\ s.via = "login"
              /\ \A s \in sessions' \ sessions : s.user = u /\ s.via = "login"]_vars

C3_Witness ==
    /\ loginResp = "session"
    /\ \E s \in sessions : s.via = "login" /\ ~store[s.user].TOTPEnabled
    /\ tokens = <<>>

\* C4: once a token is consumed it stays consumed and no further session
\* is issued for it, and every VerifyAndComplete that finds it consumed
\* answers InvalidToken, whatever the code.
C4_ConsumedTokenIsInvalidForever ==
    [][/\ \A t \in DOMAIN tokens :
             tokens[t].consumed =>
                 /\ t \in DOMAIN tokens' /\ tokens'[t].consumed
                 /\ {s \in sessions' : s.via = "verify" /\ s.tok = t}
                       = VerifySessions(t)
       /\ verifyResp'.was = "consumed" => verifyResp'.resp = "InvalidToken"]_vars

C4_Witness ==
    /\ verifyResp.resp = "InvalidToken"
    /\ verifyResp.stage = "lookup"
    /\ verifyResp.proof
    /\ verifyResp.tok \in DOMAIN tokens
    /\ tokens[verifyResp.tok].consumed
    /\ ~(now > tokens[verifyResp.tok].expiresAt)
    /\ VerifySessions(verifyResp.tok) # {}

\* C5: whatever the interleaving of VerifyAndComplete calls on one token,
\* at most one of them issues a session.
C5_AtMostOneSessionPerToken ==
    \A t \in TokenIDs : Cardinality(VerifySessions(t)) <= 1

\* two calls had both validated their code on the live token; one consumed
\* it, the other then failed at the check-and-invalidate
C5_Witness ==
    /\ verifyResp.resp = "InvalidToken"
    /\ verifyResp.stage = "consume"
    /\ verifyResp.proof
    /\ Cardinality(VerifySessions(verifyResp.tok)) = 1

\* C6: a VerifyAndComplete that looks up an unconsumed token after its
\* expiresAt answers Expired, also for a correct code, and changes neither
\* the sessions nor the tokens; a token that is past its expiry stays past it.
C6_ExpiredTokenFails ==
    [][/\ (verifyResp'.stage = "lookup" /\ verifyResp'.was = "expired") =>
             /\ verifyResp'.resp = "Expired"
             /\ verifyResp' # verifyResp => (sessions' = sessions /\ tokens' = tokens)
       /\ \A w \in Verifiers :
             vcall'[w].pc = "validated" /\ vcall[w].pc = "idle" =>
                 now <= tokens[vcall'[w].tok].expiresAt
       /\ \A t \in DOMAIN tokens :
             now > tokens[t].expiresAt =>
                 (t \in DOMAIN tokens' /\ now' > tokens'[t].expiresAt)]_vars

C6_Witness ==
    /\ verifyResp.resp = "Expired"
    /\ verifyResp.proof
    /\ now > tokens[verifyResp.tok].expiresAt
    /\ VerifySessions(verifyResp.tok) = {}

\* C7: on an unexpired, unconsumed token a VerifyAndComplete is rejected at
\* lookup only for an invalid code, with InvalidCode and with tokens and
\* sessions unchanged; a request passes validation only with a valid code,
\* and the check-and-invalidate of a request that finds the token still
\* unconsumed succeeds, whatever failed before.
C7_InvalidCodeKeepsToken ==
    [][/\ (verifyResp'.stage = "lookup" /\ verifyResp'.was = "live") =>
             /\ verifyResp'.resp = "InvalidCode"
             /\ ~verifyResp'.proof
             /\ verifyResp' # verifyResp => (sessions' = sessions /\ tokens' = tokens)
       /\ \A w \in Verifiers :
             vcall'[w].pc = "validated" /\ vcall[w].pc = "idle" =>
                 vcall'[w].proof /\ tokens' = tokens
       /\ (verifyResp'.stage = "consume" /\ verifyResp'.was # "consumed") =>
             /\ verifyResp'.resp = "OK"
             /\ VerifySessions(verifyResp.tok)' # {}]_vars

C7_Witness ==
    /\ verifyResp.resp = "OK"
    /\ verifyResp.tok \in retried
    /\ VerifySessions(verifyResp.tok) # {}

\* C8: an enable request that is decodable and authorized but whose code
\* is not in the window of the submitted secret is answered 400 "Invalid
\* verification code" in the same step, with no store write: the store is
\* the same before and after.
C8_InvalidCodeEnableWritesNothing ==
    [][\A r \in Reqs :
          (req'[r].op = "enable" /\ req'[r].codeMiss) =>
              /\ req'[r].pc = "done"
              /\ req'[r].status = StatusBadRequest
              /\ req'[r].body = "Invalid verification code"
              /\ req'[r].writes = 0
              /\ (req'[r] # req[r] => store' = store)]_vars

C8_Witness ==
    \E r \in Reqs :
        /\ req[r].op = "enable"
        /\ req[r].codeMiss
        /\ req[r].body = "Invalid verification code"
        /\ \E u \in Users : store[u].TOTPEnabled

\* C9: the store holds, for every account, what the last successful request
\* wrote: the secret submitted in the last successful enable together with
\* enabled=true, or the blank pair after a later successful disable; a
\* successful enable or disable made exactly one store write.
C9_StoreHoldsLastSuccessfulEnable ==
    /\ \A u \in Users :
          store[u] = IF lastOK[u].op = "enable"
                     THEN Enrolled(lastOK[u].secret)
                     ELSE NoAccount
    /\ \A r \in Reqs :
          (req[r].pc = "done" /\ req[r].op \in {"enable", "disable"}) =>
              (req[r].writes = IF req[r].status = StatusOK THEN 1 ELSE 0)

\* a setup minted another secret after the enable that is in force
C9_Witness ==
    \E r \in Reqs, u \in Users :
        /\ req[r].op = "setup" /\ req[r].status = StatusOK
        /\ store[u].TOTPEnabled
        /\ store[u].TOTPSecret = SecretA
        /\ req[r].secret = SecretB

\* C10: in the store, enabled=true implies a non-empty secret.
C10_EnabledImpliesSecret ==
    \A u \in Users : store[u].TOTPEnabled => store[u].TOTPSecret # ""

\* C11: whatever the interleaving of enable and disable requests, the pair
\* a reader finds in the store is (non-empty secret, enabled=true) or
\* (empty secret, enabled=false), never a secret with enabled=false or
\* enabled=true without a secret.
C11_NoPartialWriteObservable ==
    \A u \in Users :
        \/ store[u].TOTPSecret # "" /\ store[u].TOTPEnabled
        \/ store[u].TOTPSecret = "" /\ ~store[u].TOTPEnabled

\* C12 as stated: a request of setup, enable or disable whose caller is
\* absent or is neither the target nor an administrator is answered 401 or
\* 403, with no Verifier call and no store read or write.
C12_UnauthorizedIs401Or403 ==
    \A r \in Reqs :
        req[r].authz \in {"absent", "denied"} =>
            /\ req[r].pc = "done"
            /\ req[r].status \in {StatusUnauthorized, StatusForbidden}
            /\ req[r].reads = 0 /\ req[r].vcalls = 0 /\ req[r].writes = 0

\* C12 amended: such a request is finished with no Verifier call and no
\* store read or write; the answer is 401 for an absent caller and 403 for
\* one who is neither owner nor administrator, except that enable answers
\* 400 "Invalid request body" first when its body does not decode.
C12_UnauthorizedTouchesNothing ==
    \A r \in Reqs :
        req[r].authz \in {"absent", "denied"} =>
            /\ req[r].pc = "done"
            /\ req[r].reads = 0 /\ req[r].vcalls = 0 /\ req[r].writes = 0
            /\ \/ /\ req[r].op = "enable"
                  /\ req[r].status = StatusBadRequest
                  /\ req[r].body = "Invalid request body"
               \/ /\ req[r].authz = "absent"
                  /\ req[r].status = StatusUnauthorized
                  /\ req[r].logged = {}
               \/ /\ req[r].authz = "denied"
                  /\ req[r].status = StatusForbidden
                  /\ req[r].logged = {}

\* an owner of another account was refused while an account is enrolled
C12_Witness ==
    \E r \in Reqs :
        /\ req[r].authz = "denied"
        /\ req[r].status = StatusForbidden
        /\ req[r].op = "enable"
        /\ \E u \in Users : store[u].TOTPEnabled

\* C13: the Put of a disable request that succeeds writes both fields of
\* the target at once: right after it the stored secret is "" and enabled
\* is false, whatever the pair was; it is the request's only write and the
\* request called no Verifier operation.
C13_DisableClearsBothFields ==
    [][\A r \in Reqs :
          (/\ req[r].pc = "put" /\ req[r].op = "disable"
           /\ req'[r].pc = "done" /\ req'[r].status = StatusOK) =>
              /\ store'[req[r].userID] = NoAccount
              /\ \A u \in Users \ {req[r].userID} : store'[u] = store[u]
              /\ req'[r].writes = 1
              /\ req'[r].vcalls = 0]_vars

C13_Witness ==
    \E r \in Reqs, u \in Users :
        /\ req[r].op = "disable" /\ req[r].status = StatusOK
        /\ lastOK[u].op = "disable"
        /\ store[u] = NoAccount

\* C14 as stated: a disable request of an authorized caller always ends in
\* {success: true, totpEnabled: false}.
C14_AuthorizedDisableAlwaysSucceeds ==
    \A r \in Reqs :
        (req[r].op = "disable" /\ req[r].authz = "ok" /\ req[r].pc = "done") =>
            /\ req[r].status = StatusOK
            /\ req[r].body = "success,totpEnabled=false"

\* C14 amended: a disable request of an authorized caller verifies no code
\* and ends in {success: true, totpEnabled: false} after its one store
\* write, unless the target account does not exist (404) or the store write
\* fails (500).
C14_AuthorizedDisableOutcome ==
    \A r \in Reqs :
        (req[r].op = "disable" /\ req[r].authz = "ok") =>
            /\ req[r].vcalls = 0
            /\ req[r].pc = "put" => req[r].userID \in Users
            /\ req[r].pc = "done" =>
                 \/ /\ req[r].status = StatusOK
                    /\ req[r].body = "success,totpEnabled=false"
                    /\ req[r].writes = 1
                    /\ req[r].logged = {}
                 \/ /\ req[r].status = StatusNotFound
                    /\ req[r].writes = 0
                    /\ \E u \in TargetIDs \ Users :
                          req[r].logged = {<<"Failed to get user", "userID", u>>
                                              \o NotFoundError}
                 \/ /\ req[r].status = StatusInternalServerError
                    /\ req[r].writes = 0
                    /\ \E u \in Users :
                          req[r].logged = {<<"Failed to update user", "userID", u>>
                                              \o StoreError}

\* an account that was never enrolled was disabled by the administrator
C14_Witness ==
    \E r \in Reqs :
        /\ req[r].op = "disable" /\ req[r].authz = "ok"
        /\ req[r].status = StatusOK
        /\ lastOK["alice"].op = "disable"
        /\ lastOK["admin"].op = "none"

\* C15: a setup request, whatever its outcome, leaves the store as it is
\* and makes no store write.
C15_SetupWritesNothing ==
    [][\A r \in Reqs :
          (req'[r].op = "setup" /\ req'[r] # req[r]) =>
              /\ store' = store
              /\ req'[r].pc = "done"
              /\ req'[r].writes = 0]_vars

\* a setup for an enrolled account minted another secret; the account keeps
\* the one it has
C15_Witness ==
    \E r \in Reqs :
        /\ req[r].op = "setup" /\ req[r].status = StatusOK
        /\ req[r].userID \in Users
        /\ store[req[r].userID].TOTPEnabled
        /\ store[req[r].userID].TOTPSecret \in MintPool \ {req[r].secret}

\* C16: the secret of every enabled account is one that an earlier setup
\* request returned for that account.
C16_EnabledSecretCameFromSetup ==
    \A u \in Users :
        store[u].TOTPEnabled => store[u].TOTPSecret \in minted[u]

\* C17: for a secret GenerateSecret can return and a call at time at,
\* ValidateCode is true for the 6-digit codes computed for the steps one
\* before, at and one after at (30-second steps) and false for every other
\* 6-digit code.
C17_ValidateCodeWindow ==
    (svc.op = "ValidateCode" /\ svc.secret \in MintPool
                             /\ svc.code.len = 6) =>
        (svc.ok <=> \E i \in {0 - 1, 0, 1} :
                       svc.code = GenerateCode(svc.secret, svc.at + i * 30))

\* the code of the step before was accepted
C17_Witness ==
    /\ svc.op = "ValidateCode" /\ svc.ok
    /\ svc.secret \in MintPool
    /\ svc.code = GenerateCode(svc.secret, svc.at - 30)
    /\ svc.code # GenerateCode(svc.secret, svc.at)

\* C18: a ValidateCode call changes nothing but its own result, and the
\* result is true for every call made while the clock is in the code's
\* window, however many calls have accepted the same secret and code.
C18_ValidateCodeKeepsNoState ==
    [][(svc' # svc /\ svc'.op = "ValidateCode") =>
          /\ UNCHANGED <<now, enrollVars, loginVars, minted>>
          /\ svc'.ok <=> svc'.code \in CodeWindow(svc'.secret, now)]_vars

\* the same code was accepted MaxCalls times and once more a step later
C18_Witness ==
    /\ svc.op = "ValidateCode" /\ svc.ok
    /\ svc.n = MaxCalls
    /\ svc.since < svc.at

\* The text names a secret.
Leaks(text) == \E i \in DOMAIN text : text[i] \in MintPool

\* C19: no log record written and no error returned or answered by setup,
\* enable, disable, GenerateSecret, ValidateCode or GenerateQRCode names a
\* secret (alone or inside the provisioning URL).
C19_NoSecretInLogsOrErrors ==
    /\ ~Leaks(svc.err)
    /\ \A l \in svc.logged : ~Leaks(l)
    /\ \A r \in Reqs :
          /\ \A l \in req[r].logged : ~Leaks(l)
          /\ req[r].status >= 400 =>
                (req[r].secret = "" /\ req[r].qrCode = <<>>)

\* The provisioning URLs GenerateSecret produces.
MintedURLs ==
    {g.url : g \in {x \in UNION {GenerateSecret(u) : u \in Users} :
                       x.err = NoError}}

\* C20: GenerateQRCode answers a provisioning URL produced by
\* GenerateSecret with a string that starts with "data:image/png;base64,"
\* unless rasterization fails, and answers every other string, and every
\* failure, with an error and the empty string; setup then answers 500 with
\* neither secret nor qrCode.
C20_QRCodeOrError ==
    /\ svc.op = "GenerateQRCode" =>
          /\ svc.ok => (svc.url \in MintedURLs /\ svc.err = NoError
                        /\ svc.qrCode[1] = "data:image/png;base64,")
          /\ ~svc.ok => (svc.err # NoError /\ svc.qrCode = <<>>)
    /\ \A r \in Reqs :
          (req[r].op = "setup" /\ req[r].body = "Failed to generate QR code") =>
              /\ req[r].status = StatusInternalServerError
              /\ req[r].secret = "" /\ req[r].qrCode = <<>>

\* C21: a GenerateSecret call that succeeds returns a non-empty secret and
\* an otpauth://totp/ URL with the issuer "Navidrome", the UserName it was
\* called for as account label and the secret it returns; a call that fails
\* returns the empty secret and the empty URL with the error, and logs it.
C21_GenerateSecretResult ==
    svc.op = "GenerateSecret" =>
        /\ svc.ok =>
              /\ svc.err = <<>>
              /\ svc.secret # ""
              /\ svc.url = <<"otpauth", "totp", "Navidrome", svc.user, svc.secret>>
              /\ svc.logged = {}
        /\ ~svc.ok =>
              /\ svc.err # <<>>
              /\ svc.secret = "" /\ svc.url = <<>>
              /\ svc.logged = {<<"Failed to generate TOTP secret", "user",
                                  svc.user>> \o svc.err}

\* the second secret of the pool was generated for alice
C21_Witness ==
    /\ svc.op = "GenerateSecret" /\ svc.ok
    /\ svc.user = "alice"
    /\ svc.secret = SecretB

\* C22: right after the Up step every account that was in the table has
\* totp_secret = '' and totp_enabled = FALSE and its other columns as they
\* were, so the server finds it not enrolled and its login asks for no
\* second factor; right after a Down step that follows an Up the table has
\* the columns it had before the Up, with the rows' other cells as they are.
C22_MigrationKeepsAccountsUnenrolled ==
    /\ db.op = "Up" =>
          /\ db.columns = {"user_name", "email", "totp_secret", "totp_enabled"}
          /\ DOMAIN db.rows = DOMAIN db.before
          /\ \A u \in DOMAIN db.before :
                /\ db.rows[u]["totp_secret"] = ""
                /\ db.rows[u]["totp_enabled"] = "0"
                /\ \A c \in {"user_name", "email"} : db.rows[u][c] = db.before[u][c]
                /\ store[u].TOTPSecret = "" /\ ~store[u].TOTPEnabled
                /\ store[u].Email = db.before[u]["email"]
                /\ ~SecondFactorRequired(u)
          /\ loginResp # "totpRequired"
    /\ db.op = "Down" =>
          /\ db.columns = {"user_name", "email"}
          /\ \A u \in DOMAIN db.rows : DOMAIN db.rows[u] = {"user_name", "email"}

\* after the Up step an account that was there logged in with its password
\* and got its session at once
C22_Witness ==
    /\ db.op = "Up"
    /\ "alice" \in DOMAIN db.before
    /\ db.before["alice"]["email"] # ""
    /\ loginResp = "session"
    /\ \E s \in sessions : s.user = "alice" /\ s.via = "login"

C25_FailureKeepsDialogReenterable ==
    /\ dlg.last = "EnableRejected" =>
          /\ dlg.notified = "totpEnableFailed"
          /\ dlg.error = "resources.user.validations.invalidTOTPCode"
          /\ ~dlg.loading
          /\ [step |-> dlg.step, secret |-> dlg.secret, qrCode |-> dlg.qrCode,
              code |-> dlg.code, error |-> dlg.was.error] = dlg.was
          /\ (dlg.open /\ dlg.answered.session = dlg.session) =>
                /\ dlg.step = 2
                /\ dlg.secret = dlg.answered.secret /\ dlg.secret # ""
                /\ dlg.qrCode # <<>>
                /\ dlg.code = dlg.answered.code
                /\ ~(dlg.loading \/ Len(dlg.code) # 6)
    /\ dlg.last = "SetupRejected" =>
          /\ dlg.notified = "totpSetupFailed"
          /\ dlg.error # ""
          /\ ~dlg.loading
          /\ [step |-> dlg.step, secret |-> dlg.secret, qrCode |-> dlg.qrCode,
              code |-> dlg.code, error |-> dlg.was.error] = dlg.was
          /\ (dlg.open /\ dlg.answered.session = dlg.session) => dlg.step = 1
    /\ (dlg.was.step = 2 /\ dlg.step = 1) =>
          /\ dlg.last \in {"EnableResolved", "ClickCancel", "Dismiss"}
          /\ dlg.secret = "" /\ dlg.qrCode = <<>> /\ dlg.code = <<>>
          /\ dlg.error = ""
          /\ ~dlg.open

\* an enable failed twice in one session: the second code was sent from
\* the dialog the first failure left
C25_Witness ==
    /\ dlg.last = "EnableRejected"
    /\ dlg.open /\ dlg.step = 2
    /\ dlg.answered.session = dlg.session
    /\ dlg.secret \in MintPool
    /\ dlg.was.error = ""
    /\ dlg.code = <<"1", "2", "3", "4", "5", "7">>

\* C29: the code field holds at most 6 characters, all of them decimal
\* digits; every enable request was sent with a code of exactly 6
\* characters, while loading was false and no request was in flight, so at
\* most one request is in flight and loading is true meanwhile; and
\* handleEnableTOTP, given a shorter code, sets the validation error and
\* sends nothing.
C29_CodeFieldAndEnableGuard ==
    /\ Len(dlg.code) <= 6
    /\ \A i \in 1..Len(dlg.code) : dlg.code[i] \in DigitChars
    /\ dlg.sent # NoSent =>
          /\ Len(dlg.sent.code) = 6
          /\ ~dlg.sent.loading
          /\ dlg.sent.others = 0
    /\ \A f \in dlg.flights : f.kind = "enable" => Len(f.code) = 6
    /\ Cardinality(dlg.flights) <= 1
    /\ dlg.flights # {} => dlg.loading
    /\ \A n \in 0..(Len(dlg.code) - 1) :
          LET short == [dlg EXCEPT !.code = SubSeq(dlg.code, 1, n)]
          IN  /\ HandleEnableTOTP(short).error
                    = "resources.user.validations.invalidTOTPCode"
              /\ HandleEnableTOTP(short).flights = dlg.flights
              /\ HandleEnableTOTP(short).sent = dlg.sent

\* eight digits were pasted, the field kept six and they were sent
C29_Witness ==
    /\ dlg.last = "ClickEnable"
    /\ dlg.sent.code = <<"1", "2", "3", "4", "5", "6">>
    /\ dlg.code = dlg.sent.code
    /\ dlg.loading
    /\ \E f \in dlg.flights : f.kind = "enable" /\ f.code = dlg.sent.code

\* C30: the dialog shows step 2 only with the secret of a setup response
\* that succeeded, and every enable request carries the secret of the last
\* setup response that succeeded, which arrived in the session that sends
\* the request, while the dialog was open: no secret of an earlier session
\* is sent.
C30_EnableSendsSecretOfThisSession ==
    /\ dlg.step = 2 => (dlg.secret # "" /\ dlg.secret = dlg.got.secret)
    /\ dlg.last = "ClickEnable" =>
          /\ dlg.sent.secret = dlg.got.secret
          /\ dlg.got.session = dlg.sent.session
          /\ dlg.got.open

\* C26: an enable request is answered by the first check that fails, in
\* the order body, caller, owner-or-admin, code, account, store write, and
\* nothing after that check is run: 400 for a body that does not decode,
\* 401 for no caller, 403 for a caller who is neither owner nor
\* administrator (none of them with a Verifier call or a store access), 400
\* for a code outside the window of the submitted secret (one Verifier
\* call, no store access), 404 for a target with no account (one read, no
\* Put), 500 when the Put fails; 200 only after the Put succeeded.
C26_EnableFirstFailureDecides ==
    LET q == req[1]
        Untouched == q.reads = 0 /\ q.vcalls = 0 /\ q.puts = 0 /\ q.writes = 0
        Answer(status, body) ==
            q.pc = "done" /\ q.status = status /\ q.body = body
                          /\ q.responses = 1
    IN  ask.op = "enable" =>
          /\ q.op = "enable"
          /\ IF ~ask.decodes
             THEN Answer(400, "Invalid request body") /\ Untouched
             ELSE IF ~ask.present
             THEN Answer(401, "Not authenticated") /\ Untouched
             ELSE IF ~ask.allowed
             THEN Answer(403, "Access denied") /\ Untouched
             ELSE IF ~ask.valid
             THEN /\ Answer(400, "Invalid verification code")
                  /\ q.vcalls = 1
                  /\ q.reads = 0 /\ q.puts = 0 /\ q.writes = 0
             ELSE IF ~ask.exists
             THEN /\ Answer(404, "User not found")
                  /\ q.vcalls = 1 /\ q.reads = 1
                  /\ q.puts = 0 /\ q.writes = 0
             ELSE IF ask.storeOK = "none"
             THEN /\ q.pc = "put" /\ q.status = 0 /\ q.responses = 0
                  /\ q.vcalls = 1 /\ q.reads = 1
                  /\ q.puts = 0 /\ q.writes = 0
             ELSE IF ask.storeOK = "failed"
             THEN /\ Answer(500, "Failed to enable TOTP")
                  /\ q.puts = 1 /\ q.writes = 0
             ELSE /\ Answer(200, "success,totpEnabled=true")
                  /\ q.puts = 1 /\ q.writes = 1
          /\ q.status = 200 => ask.storeOK = "ok"

\* a caller with no right to the target sent a body that does not decode
\* and a ghost target: the body decided
C26_Witness ==
    /\ ask.op = "enable"
    /\ ~ask.decodes /\ ask.present /\ ~ask.allowed /\ ~ask.exists
    /\ req[1].status = 400
    /\ \E u \in Users : store[u].TOTPEnabled

\* C28: a request of setup, enable or disable that has finished wrote
\* exactly one response, an error or the success; one that waits for its
\* Put has written none yet; and no request calls Put more than once or
\* writes the store more than once, setup never.
C28_OneResponseOneWrite ==
    LET q == req[1]
    IN  ask.op # "none" =>
          /\ q.op = ask.op
          /\ q.pc \in {"put", "done"}
          /\ q.pc = "done" =>
                /\ q.responses = 1
                /\ q.status \in {200, 400, 401, 403, 404, 500}
                /\ q.status = 200 <=>
                      q.body \in {"secret,qrCode", "success,totpEnabled=true",
                                  "success,totpEnabled=false"}
          /\ q.pc = "put" =>
                (q.responses = 0 /\ q.status = 0 /\ q.op # "setup")
          /\ q.puts <= 1
          /\ q.writes <= q.puts
          /\ q.op = "setup" => q.puts = 0
          /\ ask.storeOK # "none" => (q.pc = "done" /\ q.puts = 1)

\* the Put of a disable failed: one Put, no write, the one response is 500
C28_Witness ==
    /\ ask.op = "disable" /\ ask.storeOK = "failed"
    /\ req[1].status = 500
    /\ req[1].responses = 1
    /\ req[1].puts = 1 /\ req[1].writes = 0

\* C27: the Put of an enable or disable request changes nothing but the
\* secret and the enabled flag of its target: the target's Email is after
\* the Put what it was in the store before it, whoever wrote it last, and
\* every other account is as it was.
C27_PutChangesOnlyTOTPFields ==
    [][(req[1].pc = "put" /\ req'[1].pc = "done") =>
          /\ store'[req[1].userID].Email = store[req[1].userID].Email
          /\ \A u \in Users \ {req[1].userID} : store'[u] = store[u]]_vars
====
